---- MODULE Spec2Model ----
(***************************************************************************)
(* State-machine model of TransferLearning/TrainModels.py:                 *)
(*   train_model                 (Spec)      the train/validate loop       *)
(*   set_parameter_requires_grad                                           *)
(*   initialize_model            (SpecInit)  backbone selection, new head  *)
(* The framework objects (network, data loaders, criterion, optimizer) are *)
(* outside the repository; what they compute is a nondeterministic choice  *)
(* from small sets, what the script does with the results is modelled      *)
(* statement by statement.                                                 *)
(***************************************************************************)
EXTENDS Integers, Sequences, FiniteSets, TLC

\* ---------------------------------------------------------------- bounds
MaxEpochs == 2      \* num_epochs ranges over 0..MaxEpochs
NumBatches == 1     \* batches a data loader yields (one sample per batch)
MaxClasses == 2     \* num_classes ranges over 1..MaxClasses

VARIABLES
    \* ---- train_model: parameters
    num_epochs, train_name, val_name, is_inception,
    \* ---- train_model: locals and the model object
    pc, weights, mode, tracked, grads,
    val_acc_history, best_model_wts, best_acc,
    epoch, phase_i, phase, batch,
    running_loss, running_corrects,
    outputs, aux_outputs, loss, preds,
    epoch_loss, epoch_acc,
    \* ---- train_model: history variables (not program state)
    phase_log, val_log, phase_start_wts, train_end_wts, unpacked,
    \* ---- initialize_model: parameters
    model_name, num_classes, feature_extract, use_pretrained,
    \* ---- initialize_model: locals
    ipc, model_ft, input_size, num_ftrs, heads_done

tvars == <<num_epochs, train_name, val_name, is_inception,
           pc, weights, mode, tracked, grads,
           val_acc_history, best_model_wts, best_acc,
           epoch, phase_i, phase, batch,
           running_loss, running_corrects,
           outputs, aux_outputs, loss, preds,
           epoch_loss, epoch_acc,
           phase_log, val_log, phase_start_wts, train_end_wts, unpacked>>

ivars == <<model_name, num_classes, feature_extract, use_pretrained,
           ipc, model_ft, input_size, num_ftrs, heads_done>>

vars == <<tvars, ivars>>

None == "None"

\* line 122: model_ft = None
NoModel == [arch |-> None]

\* =====================================================================
\*                              train_model
\* =====================================================================

\* The names the caller passes.  train_name is one fixed key; val_name is
\* either another key or the same one.
TrainNames == {"train"}
ValNames == {"train", "val"}

\* The model's parameter state.  Two values tell a changed state from an
\* unchanged one; train_model is entered with InitialWeights.
Weights == {0, 1}
InitialWeights == 0

\* Output classes of the network
Classes == {0, 1}

\* Accuracies and the best accuracy are quotients; <<n, d>> stands for n/d.
AccGt(a, b) == a[1] * b[2] > b[1] * a[2]
AccEq(a, b) == a[1] * b[2] = b[1] * a[2]
AccGe(a, b) == a[1] * b[2] >= b[1] * a[2]

\* len(dataloaders[phase].dataset): one sample per batch
DatasetLen(ph) == NumBatches

\* the label of the sample in batch b of a loader (the dataset is fixed data)
Labels(ph, b) == b % 2

\* criterion(out, labels): the loss of one output, 0 for the right class
Criterion(out, lab) == IF out = lab THEN 0 ELSE 1

\* torch.max(outputs, 1): the predicted class of an output
ArgMax(out) == out

\* (mutant) the validation phase runs before the training phase
MutPhasesSwapped(tn, vn) == <<vn, tn>>

\* line 39: for phase in [train_name, val_name]
Phases(tn, vn) == <<tn, vn>>

\* lines 40-43: model.train() or model.eval()
ModeOf(ph, tn) == IF ph = tn THEN "train" ELSE "eval"

\* line 58: torch.set_grad_enabled(phase == train_name)
GradEnabled(ph, tn) == ph = tn

\* line 63: if is_inception and phase == train_name
UseAux(inc, ph, tn) == inc /\ ph = tn

\* (mutant) the auxiliary loss is added with weight 1
MutAuxLossUnweighted(loss1, loss2) == 10 * loss1 + 10 * loss2

\* line 68: loss = loss1 + 0.4*loss2, in tenths
AuxLoss(loss1, loss2) == 10 * loss1 + 4 * loss2

\* line 71: loss = criterion(outputs, labels), in tenths
PlainLoss(loss1) == 10 * loss1

\* (mutant) backward and optimizer.step run in every phase
MutAlwaysBackward(ph, tn) == TRUE

\* line 76: if phase == train_name (backward + optimizer.step)
DoBackward(ph, tn) == ph = tn

\* line 90: if phase == val_name and epoch_acc > best_acc
IsImprovement(ph, vn, acc, best) == ph = vn /\ AccGt(acc, best)

\* line 93: if phase == val_name
IsRecorded(ph, vn) == ph = vn

\* line 32: best_acc = 0.0
InitialBestAcc == <<0, 1>>

TrainIdle ==
    /\ pc = "idle" /\ num_epochs = 0 /\ train_name = None /\ val_name = None
    /\ is_inception = FALSE /\ weights = InitialWeights /\ mode = None
    /\ tracked = None /\ grads = None
    /\ val_acc_history = <<>> /\ best_model_wts = None /\ best_acc = None
    /\ epoch = None /\ phase_i = 0 /\ phase = None /\ batch = 0
    /\ running_loss = None /\ running_corrects = None
    /\ outputs = None /\ aux_outputs = None /\ loss = None /\ preds = None
    /\ epoch_loss = None /\ epoch_acc = None
    /\ phase_log = <<>> /\ val_log = <<>>
    /\ phase_start_wts = None /\ train_end_wts = None /\ unpacked = 0

\* train_model is called: the parameters are bound, nothing has run
TrainInit ==
    /\ pc = "entry"
    /\ num_epochs \in 0..MaxEpochs
    /\ train_name \in TrainNames
    /\ val_name \in ValNames
    /\ is_inception \in BOOLEAN
    /\ weights = InitialWeights
    /\ mode = None
    /\ tracked = None
    /\ grads = None
    /\ val_acc_history = <<>> /\ best_model_wts = None /\ best_acc = None
    /\ epoch = None /\ phase_i = 0 /\ phase = None /\ batch = 0
    /\ running_loss = None /\ running_corrects = None
    /\ outputs = None /\ aux_outputs = None /\ loss = None /\ preds = None
    /\ epoch_loss = None /\ epoch_acc = None
    /\ phase_log = <<>> /\ val_log = <<>>
    /\ phase_start_wts = None /\ train_end_wts = None /\ unpacked = 0

\* lines 27-32
TrainEntry ==
    /\ pc = "entry"
    /\ val_acc_history' = <<>>
    /\ best_model_wts' = weights
    /\ best_acc' = InitialBestAcc
    /\ epoch' = 0
    /\ pc' = "epoch"
    /\ UNCHANGED <<num_epochs, train_name, val_name, is_inception, weights,
                   mode, tracked, grads, phase_i, phase, batch,
                   running_loss, running_corrects, outputs, aux_outputs,
                   loss, preds, epoch_loss, epoch_acc,
                   phase_log, val_log, phase_start_wts, train_end_wts, unpacked>>

\* line 34: the next value of range(num_epochs)
EpochBegin ==
    /\ pc = "epoch"
    /\ epoch < num_epochs
    /\ phase_i' = 1
    /\ pc' = "phase"
    /\ UNCHANGED <<num_epochs, train_name, val_name, is_inception, weights,
                   mode, tracked, grads, val_acc_history,
                   best_model_wts, best_acc, epoch, phase, batch,
                   running_loss, running_corrects, outputs, aux_outputs,
                   loss, preds, epoch_loss, epoch_acc,
                   phase_log, val_log, phase_start_wts, train_end_wts, unpacked>>

\* lines 39-46: the next phase of the epoch starts
PhaseBegin ==
    /\ pc = "phase"
    /\ phase' = Phases(train_name, val_name)[phase_i]
    /\ mode' = ModeOf(phase', train_name)
    /\ running_loss' = 0
    /\ running_corrects' = 0
    /\ batch' = 1
    /\ pc' = "batch"
    /\ phase_log' = Append(phase_log,
                            [epoch |-> epoch, name |-> phase', mode |-> mode'])
    /\ phase_start_wts' = weights
    /\ UNCHANGED <<num_epochs, train_name, val_name, is_inception, weights,
                   tracked, grads, val_acc_history, best_model_wts,
                   best_acc, epoch, phase_i, outputs, aux_outputs, loss,
                   preds, epoch_loss, epoch_acc, val_log, train_end_wts,
                   unpacked>>

\* lines 49-82: one batch of dataloaders[phase]
Batch ==
    /\ pc = "batch"
    /\ batch <= NumBatches
    /\ LET labels == Labels(phase, batch)
           two == UseAux(is_inception, phase, train_name)
           step == DoBackward(phase, train_name)
       IN  \E out \in Classes,
              aux \in (IF two THEN Classes ELSE {aux_outputs}),
              w \in (IF step THEN Weights ELSE {weights}) :
             /\ tracked' = GradEnabled(phase, train_name)
             /\ outputs' = out
             /\ aux_outputs' = aux
             /\ unpacked' = IF two THEN 2 ELSE 1
             /\ loss' = IF two
                          THEN AuxLoss(Criterion(out, labels), Criterion(aux, labels))
                          ELSE PlainLoss(Criterion(out, labels))
             /\ preds' = ArgMax(out)
             /\ grads' = IF step THEN "computed" ELSE "zero"
             /\ weights' = w
             /\ running_loss' = running_loss + loss' * 1
             /\ running_corrects' = running_corrects
                                      + (IF preds' = labels THEN 1 ELSE 0)
    /\ batch' = batch + 1
    /\ UNCHANGED <<num_epochs, train_name, val_name, is_inception, pc, mode,
                   val_acc_history, best_model_wts, best_acc, epoch, phase_i,
                   phase, epoch_loss, epoch_acc,
                   phase_log, val_log, phase_start_wts, train_end_wts>>

\* lines 84-94, and the step of the two for loops that follows
PhaseEnd ==
    /\ pc = "batch"
    /\ batch > NumBatches
    /\ epoch_loss' = <<running_loss, DatasetLen(phase)>>
    /\ epoch_acc' = <<running_corrects, DatasetLen(phase)>>
    /\ IF IsImprovement(phase, val_name, epoch_acc', best_acc)
         THEN /\ best_acc' = epoch_acc'
              /\ best_model_wts' = weights
         ELSE UNCHANGED <<best_acc, best_model_wts>>
    /\ train_end_wts' = IF phase_i = 1 THEN weights ELSE train_end_wts
    /\ IF IsRecorded(phase, val_name)
         THEN /\ val_acc_history' = Append(val_acc_history, epoch_acc')
              /\ val_log' = Append(val_log,
                     [epoch |-> epoch, phase_i |-> phase_i, mode |-> mode,
                      wts |-> weights])
         ELSE UNCHANGED <<val_acc_history, val_log>>
    /\ IF phase_i < Len(Phases(train_name, val_name))
         THEN /\ phase_i' = phase_i + 1
              /\ pc' = "phase"
              /\ epoch' = epoch
         ELSE /\ phase_i' = phase_i
              /\ pc' = "epoch"
              /\ epoch' = epoch + 1
    /\ UNCHANGED <<num_epochs, train_name, val_name, is_inception, weights,
                   mode, tracked, grads, phase, batch, running_loss,
                   running_corrects, outputs, aux_outputs, loss, preds,
                   phase_log, phase_start_wts, unpacked>>

\* lines 98-104: range(num_epochs) is exhausted; load the best weights, return
TrainReturn ==
    /\ pc = "epoch"
    /\ epoch >= num_epochs
    /\ weights' = best_model_wts
    /\ pc' = "done"
    /\ UNCHANGED <<num_epochs, train_name, val_name, is_inception,
                   mode, tracked, grads, val_acc_history,
                   best_model_wts, best_acc, epoch, phase_i, phase, batch,
                   running_loss, running_corrects, outputs, aux_outputs,
                   loss, preds, epoch_loss, epoch_acc,
                   phase_log, val_log, phase_start_wts, train_end_wts, unpacked>>


\* =====================================================================
\*               set_parameter_requires_grad, initialize_model
\* =====================================================================

ModelNames == {"resnet", "alexnet", "vgg", "squeezenet", "densenet",
               "inception", "mobilenet", ""}

Layer(i, o, rg, fr) ==
    [in_features |-> i, out_features |-> o, requires_grad |-> rg, fresh |-> fr]

\* The layers of a network as the model zoo builds it: every parameter
\* trainable, the classifier with the 1000 ImageNet outputs.
ZooLayers(arch) ==
    CASE arch = "resnet18" ->
           [l \in {"layer4", "fc"} |->
              IF l = "fc" THEN Layer(512, 1000, TRUE, FALSE)
                          ELSE Layer(256, 512, TRUE, FALSE)]
      [] arch \in {"alexnet", "vgg11_bn"} ->
           [l \in {"features", "classifier.4", "classifier.6"} |->
              IF l = "classifier.6" THEN Layer(4096, 1000, TRUE, FALSE)
              ELSE IF l = "classifier.4" THEN Layer(4096, 4096, TRUE, FALSE)
              ELSE Layer(3, 512, TRUE, FALSE)]
      [] arch = "squeezenet1_0" ->
           [l \in {"features", "classifier.1"} |->
              IF l = "classifier.1" THEN Layer(512, 1000, TRUE, FALSE)
                                    ELSE Layer(3, 512, TRUE, FALSE)]
      [] arch = "densenet121" ->
           [l \in {"features", "classifier"} |->
              IF l = "classifier" THEN Layer(1024, 1000, TRUE, FALSE)
                                  ELSE Layer(3, 1024, TRUE, FALSE)]
      [] arch = "inception_v3" ->
           [l \in {"Mixed_7c", "AuxLogits.conv1", "AuxLogits.fc", "fc"} |->
              IF l = "fc" THEN Layer(2048, 1000, TRUE, FALSE)
              ELSE IF l = "AuxLogits.fc" THEN Layer(768, 1000, TRUE, FALSE)
              ELSE IF l = "AuxLogits.conv1" THEN Layer(128, 768, TRUE, FALSE)
              ELSE Layer(1280, 2048, TRUE, FALSE)]

\* models.<arch>(pretrained=use_pretrained)
Zoo(arch, pretrained) ==
    [arch |-> arch, pretrained |-> pretrained, layers |-> ZooLayers(arch),
     num_classes |-> 1000]

\* (mutant) an unrecognized name falls into the first branch
MutBranchDefaultsToResnet(name) ==
    IF name \in {"resnet", "alexnet", "vgg", "squeezenet", "densenet", "inception"}
      THEN name ELSE "resnet"

\* lines 125, 134, 143, 152, 161, 170, 184: the if / elif / else chain
Branch(name) ==
    IF name = "resnet" THEN "resnet"
    ELSE IF name = "alexnet" THEN "alexnet"
    ELSE IF name = "vgg" THEN "vgg"
    ELSE IF name = "squeezenet" THEN "squeezenet"
    ELSE IF name = "densenet" THEN "densenet"
    ELSE IF name = "inception" THEN "inception"
    ELSE "else"

\* lines 128, 137, 146, 155, 164, 174: the constructor each branch calls
ArchOf(br) ==
    CASE br = "resnet" -> "resnet18"
      [] br = "alexnet" -> "alexnet"
      [] br = "vgg" -> "vgg11_bn"
      [] br = "squeezenet" -> "squeezenet1_0"
      [] br = "densenet" -> "densenet121"
      [] br = "inception" -> "inception_v3"

\* (mutant) the Inception branch replaces the primary head only
MutHeadLayersPrimaryOnly(br) ==
    CASE br = "resnet" -> <<"fc">>
      [] br \in {"alexnet", "vgg"} -> <<"classifier.6">>
      [] br = "squeezenet" -> <<"classifier.1">>
      [] br = "densenet" -> <<"classifier">>
      [] br = "inception" -> <<"fc">>

\* lines 131, 140, 149, 157, 167, 178 and 181: the layers each branch
\* assigns, in the order of the assignments
HeadLayers(br) ==
    CASE br = "resnet" -> <<"fc">>
      [] br \in {"alexnet", "vgg"} -> <<"classifier.6">>
      [] br = "squeezenet" -> <<"classifier.1">>
      [] br = "densenet" -> <<"classifier">>
      [] br = "inception" -> <<"AuxLogits.fc", "fc">>

\* lines 132, 141, 150, 159, 168, 182
InputSize(br) == IF br = "inception" THEN 299 ELSE 224

\* (mutant) the freeze is skipped
MutNoFreeze(m, feature_extracting) == m

\* lines 109-112
set_parameter_requires_grad(m, feature_extracting) ==
    IF feature_extracting
      THEN [m EXCEPT !.layers =
              [l \in DOMAIN m.layers |->
                 [m.layers[l] EXCEPT !.requires_grad = FALSE]]]
      ELSE m

\* nn.Linear(num_ftrs, num_classes), nn.Conv2d(512, num_classes, ...):
\* a new layer, its parameters trainable
NewLayer(i, o) == Layer(i, o, TRUE, TRUE)

InitIdle ==
    /\ model_name = None /\ num_classes = 0 /\ feature_extract = FALSE
    /\ use_pretrained = FALSE /\ ipc = "idle" /\ model_ft = NoModel
    /\ input_size = 0 /\ num_ftrs = None /\ heads_done = 0

\* initialize_model is called: the parameters are bound, nothing has run
InitCall ==
    /\ model_name \in ModelNames
    /\ num_classes \in 1..MaxClasses
    /\ feature_extract \in BOOLEAN
    /\ use_pretrained \in BOOLEAN
    /\ ipc = "entry"
    /\ model_ft = NoModel /\ input_size = None
    /\ num_ftrs = None /\ heads_done = 0

\* lines 122-123
InitEntry ==
    /\ ipc = "entry"
    /\ model_ft' = NoModel
    /\ input_size' = 0
    /\ ipc' = "select"
    /\ UNCHANGED <<model_name, num_classes, feature_extract, use_pretrained,
                   num_ftrs, heads_done>>

\* lines 128, 137, 146, 155, 164, 174: a recognized name builds its network
Construct ==
    /\ ipc = "select"
    /\ Branch(model_name) # "else"
    /\ model_ft' = Zoo(ArchOf(Branch(model_name)), use_pretrained)
    /\ ipc' = "freeze"
    /\ UNCHANGED <<model_name, num_classes, feature_extract, use_pretrained,
                   input_size, num_ftrs, heads_done>>

\* lines 129, 138, 147, 156, 165, 175
Freeze ==
    /\ ipc = "freeze"
    /\ model_ft' = set_parameter_requires_grad(model_ft, feature_extract)
    /\ ipc' = "head"
    /\ UNCHANGED <<model_name, num_classes, feature_extract, use_pretrained,
                   input_size, num_ftrs, heads_done>>

\* lines 130-131, 139-140, 148-149, 157-158, 166-167, 177-178, 180-181:
\* the next head layer of the branch is replaced by a new layer
ReplaceHead ==
    /\ ipc = "head"
    /\ LET br == Branch(model_name)
           l == HeadLayers(br)[heads_done + 1]
           last == heads_done + 1 = Len(HeadLayers(br))
       IN  /\ IF br = "squeezenet"
                THEN /\ num_ftrs' = num_ftrs
                     /\ model_ft' = [model_ft EXCEPT
                                       !.layers[l] = NewLayer(512, num_classes),
                                       !.num_classes = num_classes]
                ELSE /\ num_ftrs' = model_ft.layers[l].in_features
                     /\ model_ft' = [model_ft EXCEPT
                                       !.layers[l] = NewLayer(num_ftrs', num_classes)]
           /\ heads_done' = heads_done + 1
           /\ ipc' = IF last THEN "size" ELSE "head"
    /\ UNCHANGED <<model_name, num_classes, feature_extract, use_pretrained,
                   input_size>>

\* lines 132, 141, 150, 159, 168, 182
SetInputSize ==
    /\ ipc = "size"
    /\ input_size' = InputSize(Branch(model_name))
    /\ ipc' = "return"
    /\ UNCHANGED <<model_name, num_classes, feature_extract, use_pretrained,
                   model_ft, num_ftrs, heads_done>>

\* line 188
InitReturn ==
    /\ ipc = "return"
    /\ ipc' = "returned"
    /\ UNCHANGED <<model_name, num_classes, feature_extract, use_pretrained,
                   model_ft, input_size, num_ftrs, heads_done>>

\* lines 184-186: print and exit()
InvalidExit ==
    /\ ipc = "select"
    /\ Branch(model_name) = "else"
    /\ ipc' = "exited"
    /\ UNCHANGED <<model_name, num_classes, feature_extract, use_pretrained,
                   model_ft, input_size, num_ftrs, heads_done>>

\* =====================================================================
\*                           specifications
\* =====================================================================

\* train_model
Init == TrainInit /\ InitIdle

Next ==
    \/ TrainEntry /\ UNCHANGED ivars
    \/ EpochBegin /\ UNCHANGED ivars
    \/ PhaseBegin /\ UNCHANGED ivars
    \/ Batch /\ UNCHANGED ivars
    \/ PhaseEnd /\ UNCHANGED ivars
    \/ TrainReturn /\ UNCHANGED ivars

Spec == Init /\ [][Next]_vars

\* initialize_model
InitI == InitCall /\ TrainIdle

NextI ==
    \/ InitEntry /\ UNCHANGED tvars
    \/ Construct /\ UNCHANGED tvars
    \/ Freeze /\ UNCHANGED tvars
    \/ ReplaceHead /\ UNCHANGED tvars
    \/ SetInputSize /\ UNCHANGED tvars
    \/ InitReturn /\ UNCHANGED tvars
    \/ InvalidExit /\ UNCHANGED tvars

SpecInit == InitI /\ [][NextI]_vars

\* =====================================================================
\*                               properties
\* =====================================================================

\* index of the earliest entry of h whose accuracy is the highest in h
FirstMaxIdx(h) ==
    CHOOSE k \in 1..Len(h) :
        /\ \A j \in 1..Len(h) : AccGe(h[k], h[j])
        /\ \A j \in 1..(k - 1) : AccGt(h[k], h[j])

\* indices of the entries of h whose accuracy is the highest in h
MaxIdxs(h) == {k \in 1..Len(h) : \A j \in 1..Len(h) : AccGe(h[k], h[j])}

\* a phase whose accuracy is recorded has just ended
AfterValPhase == pc \in {"phase", "epoch"} /\ phase # None /\ phase = val_name

\* ---------------------------------------------------------------- C1
\* C1: once a validation phase has ended, best_acc equals the highest
\* accuracy in val_acc_history and best_model_wts is the weights snapshot of
\* a validation phase that measured that accuracy.  (Stated for the ordinary
\* call, train_name different from val_name.)
C1_BestIsSnapshotOfMax ==
    (train_name # val_name /\ Len(val_acc_history) > 0) =>
        /\ \A k \in MaxIdxs(val_acc_history) : AccEq(best_acc, val_acc_history[k])
        /\ \E k \in MaxIdxs(val_acc_history) : best_model_wts = val_log[k].wts

\* ---------------------------------------------------------------- C5
\* C5: when train_model has returned and the last validation phase did not
\* strictly improve on the earlier ones, the model holds best_model_wts,
\* which is the weights snapshot of a validation phase with the highest
\* accuracy.  (Stated for the ordinary call, train_name different from
\* val_name.)
C5_ReturnsBestEpochWeights ==
    (/\ pc = "done"
     /\ train_name # val_name
     /\ Len(val_acc_history) > 0
     /\ FirstMaxIdx(val_acc_history) < Len(val_acc_history))
    => /\ weights = best_model_wts
       /\ \E k \in MaxIdxs(val_acc_history) : weights = val_log[k].wts

\* ---------------------------------------------------------------- C6
\* C6: with train_name different from val_name, a returned train_model has
\* run exactly num_epochs epochs, each one training phase followed by one
\* validation phase, and val_acc_history has num_epochs entries, entry i
\* recorded in epoch i by the evaluation phase that followed the training
\* phase.
C6_EpochsAndHistory ==
    (pc = "done" /\ train_name # val_name) =>
        /\ Len(phase_log) = 2 * num_epochs
        /\ \A e \in 0..(num_epochs - 1) :
              /\ phase_log[2 * e + 1] =
                    [epoch |-> e, name |-> train_name, mode |-> "train"]
              /\ phase_log[2 * e + 2] =
                    [epoch |-> e, name |-> val_name, mode |-> "eval"]
        /\ Len(val_acc_history) = num_epochs
        /\ Len(val_log) = num_epochs
        /\ \A i \in 1..num_epochs :
              /\ val_log[i].epoch = i - 1
              /\ val_log[i].phase_i = 2
              /\ val_log[i].mode = "eval"

C6_Witness ==
    /\ pc = "done" /\ train_name # val_name
    /\ num_epochs = MaxEpochs
    /\ Len(val_acc_history) = MaxEpochs
    /\ ~ AccEq(val_acc_history[1], val_acc_history[2])

\* ---------------------------------------------------------------- C7
\* C7 (as stated): a phase named val_name leaves the weights as they were
\* when it started and computes no gradients, and the weights snapshotted at
\* its end are those the epoch's first (training) phase ended with.
C7_ValidationKeepsWeights ==
    /\ (pc = "batch" /\ phase = val_name) => weights = phase_start_wts
    /\ (pc = "batch" /\ phase = val_name /\ batch > 1) => grads = "zero"
    /\ AfterValPhase => val_log[Len(val_log)].wts = train_end_wts

\* C7 (amended): the same, for train_name different from val_name.
C7_ValidationKeepsWeightsDistinctNames ==
    train_name # val_name => C7_ValidationKeepsWeights

C7_Witness ==
    /\ train_name # val_name
    /\ AfterValPhase /\ pc = "epoch" /\ epoch = 2
    /\ val_log[1].wts # val_log[2].wts
    /\ val_log[2].wts # InitialWeights

\* ---------------------------------------------------------------- C8
\* what the batch that has just run must have computed
C8_BatchDone == pc = "batch" /\ batch > 1

C8_AuxOnlyInInceptionTraining ==
    C8_BatchDone =>
        /\ unpacked = 2 => (is_inception /\ phase = train_name)
        /\ (is_inception /\ phase = train_name) =>
              /\ unpacked = 2
              /\ loss = 10 * Criterion(outputs, Labels(phase, batch - 1))
                        + 4 * Criterion(aux_outputs, Labels(phase, batch - 1))
        /\ preds = outputs

C8_SingleOutput ==
    /\ unpacked = 1
    /\ loss = 10 * Criterion(outputs, Labels(phase, batch - 1))

C9_ReplacedOnlyOnImprovement ==
    [][pc \notin {"entry", "done"} =>
          /\ AccGe(best_acc', best_acc)
          /\ (best_model_wts' # best_model_wts => AccGt(best_acc', best_acc))]_vars

\* once a validation phase has ended, best_model_wts is the weights snapshot
\* of the earliest validation phase that measured the highest accuracy
\* recorded so far (stated for the ordinary call, train_name different from
\* val_name)
C9_EarliestMaxKept ==
    (train_name # val_name /\ Len(val_acc_history) > 0) =>
        best_model_wts = val_log[FirstMaxIdx(val_acc_history)].wts

\* C9: best_acc never decreases, the snapshot is replaced only on a strict
\* improvement, and among the validation phases that reached the highest
\* accuracy the snapshot is that of the earliest (later ties do not
\* overwrite it).
C9_MonotoneBestEarliestTie ==
    /\ C9_ReplacedOnlyOnImprovement
    /\ [] C9_EarliestMaxKept

\* ---------------------------------------------------------------- C2
Recognized == {"resnet", "alexnet", "vgg", "squeezenet", "densenet", "inception"}

\* C2: called with an unrecognized model_name, initialize_model never
\* returns, never holds a model and ends in exit().
C2_InvalidNameExits ==
    (model_name \notin Recognized /\ ipc # "entry") =>
        /\ ipc \in {"select", "exited"}
        /\ model_ft = NoModel
        /\ input_size = 0

C2_Witness == ipc = "exited" /\ model_name = "mobilenet"

\* ---------------------------------------------------------------- C3
C3_Backbone ==
    [n \in Recognized |->
        CASE n = "resnet" -> "resnet18"
          [] n = "alexnet" -> "alexnet"
          [] n = "vgg" -> "vgg11_bn"
          [] n = "squeezenet" -> "squeezenet1_0"
          [] n = "densenet" -> "densenet121"
          [] n = "inception" -> "inception_v3"]

C3_Heads ==
    [n \in Recognized |->
        CASE n = "resnet" -> {"fc"}
          [] n = "alexnet" -> {"classifier.6"}
          [] n = "vgg" -> {"classifier.6"}
          [] n = "squeezenet" -> {"classifier.1"}
          [] n = "densenet" -> {"classifier"}
          [] n = "inception" -> {"AuxLogits.fc", "fc"}]

\* C3: for a recognized name the returned model is the matching backbone,
\* its classification layer(s) are new layers with num_classes outputs (and
\* the input width of the layer they replace), every other layer is the
\* zoo's, and input_size is 299 for inception and 224 otherwise.
C3_ReturnsBackboneWithNewHead ==
    ipc = "returned" =>
        /\ model_name \in Recognized
        /\ model_ft # NoModel
        /\ model_ft.arch = C3_Backbone[model_name]
        /\ \A l \in DOMAIN model_ft.layers :
              IF l \in C3_Heads[model_name]
                THEN /\ model_ft.layers[l].fresh
                     /\ model_ft.layers[l].out_features = num_classes
                     /\ model_ft.layers[l].in_features =
                           ZooLayers(model_ft.arch)[l].in_features
                ELSE /\ ~ model_ft.layers[l].fresh
                     /\ model_ft.layers[l].out_features =
                           ZooLayers(model_ft.arch)[l].out_features
        /\ C3_Heads[model_name] \subseteq DOMAIN model_ft.layers
        /\ input_size = (IF model_name = "inception" THEN 299 ELSE 224)

C3_Witness ==
    /\ ipc = "returned" /\ model_name = "inception" /\ num_classes = 2
    /\ model_ft.layers["AuxLogits.fc"].out_features = 2
    /\ model_ft.layers["fc"].out_features = 2
    /\ input_size = 299

\* ---------------------------------------------------------------- C4
\* C4: the freeze comes before the head is replaced.  With feature_extract,
\* all layers are frozen when the first head is about to be replaced, and on
\* return exactly the new layers are trainable.  Without feature_extract the
\* freeze leaves the model as built and on return every layer is trainable.
C4_FreezeThenReplace ==
    /\ (ipc = "head" /\ heads_done = 0) =>
          /\ \A l \in DOMAIN model_ft.layers : ~ model_ft.layers[l].fresh
          /\ feature_extract =>
                \A l \in DOMAIN model_ft.layers : ~ model_ft.layers[l].requires_grad
          /\ ~ feature_extract =>
                /\ \A l \in DOMAIN model_ft.layers : model_ft.layers[l].requires_grad
                /\ model_ft = Zoo(C3_Backbone[model_name], use_pretrained)
    /\ ipc = "returned" =>
          /\ feature_extract =>
                \A l \in DOMAIN model_ft.layers :
                    model_ft.layers[l].requires_grad <=> model_ft.layers[l].fresh
          /\ ~ feature_extract =>
                \A l \in DOMAIN model_ft.layers : model_ft.layers[l].requires_grad
          /\ {l \in DOMAIN model_ft.layers : model_ft.layers[l].fresh}
                = C3_Heads[model_name]

C4_Witness ==
    /\ ipc = "returned" /\ feature_extract /\ model_name = "alexnet"
    /\ model_ft.layers["classifier.6"].requires_grad
    /\ ~ model_ft.layers["classifier.4"].requires_grad
    /\ ~ model_ft.layers["features"].requires_grad
====
